---- MODULE Spec2Model ----
(***************************************************************************)
(* Model of velodyne_rawdata::RawData (velodyne_pointcloud/src/lib/        *)
(* rawdata.cc): setParameters, setup, unpack (legacy 32/64 beam layout)    *)
(* and unpack_vlp16 (interleaved 16 beam layout).                          *)
(*                                                                         *)
(* Units.  Angles handed to setParameters are doubles in radians; they are *)
(* modelled exactly on a grid of AngleSubdiv steps per hundredth of a      *)
(* degree (2*pi = 36000*AngleSubdiv steps).  Distances are millimetres     *)
(* (DISTANCE_RESOLUTION 0.002 m = 2 mm per code unit).  Firing times are   *)
(* multiples of 2.304 microseconds.  The geometric correction (the         *)
(* trigonometry of x, y, z) is not                                         *)
(* evaluated: a written position records the frame it is expressed in.     *)
(***************************************************************************)
EXTENDS Integers, Sequences, FiniteSets, TLC

VARIABLES
  phase,              \* "constructed" | "setup_failed" | "ready" | "decoding" | "done" | "undefined"
  calibration_,       \* RawData::calibration_ : initialized, num_lasers, per-laser corrections
  tf_listener_,       \* RawData::tf_listener_ : FALSE is NULL
  config_,            \* RawData::config_
  configured,         \* setParameters has returned at least once
  scanMsg,            \* the scan handed to unpack
  pc,                 \* the output cloud of the running / last unpack
  packet,             \* loop variable next / packet
  block,              \* loop variable i / block
  n_points,           \* unpack: int n_points
  last_azimuth_diff,  \* unpack_vlp16: float last_azimuth_diff
  gateLog,            \* history: the angle gate evaluations of the last block processed
  fault,              \* history: the first undefined operation met ("" when none)
  snapshot,           \* history: the angle pair stored when the running unpack was entered
  sp,                 \* the setParameters call in progress (SpecConc): position, arguments
  installed           \* history: the angle pairs stored when a setParameters call returned

vars == << phase, calibration_, tf_listener_, config_, configured, scanMsg, pc, packet,
           block, n_points, last_azimuth_diff, gateLog, fault, snapshot, sp, installed >>

----------------------------------------------------------------------------
(* Bounds of the model *)

\* largest number of packets in one scan
MaxPackets == 2
\* grid steps per hundredth of a degree for the double-valued angle arguments
AngleSubdiv == 4

----------------------------------------------------------------------------
(* Constants of the wire format (velodyne_pointcloud/rawdata.h) *)

ROTATION_MAX_UNITS == 36000
BLOCKS_PER_PACKET == 12
SCANS_PER_BLOCK == 32
SCANS_PER_PACKET == SCANS_PER_BLOCK * BLOCKS_PER_PACKET
VLP16_FIRINGS_PER_BLOCK == 2
VLP16_SCANS_PER_FIRING == 16
\* 0xeeff and 0xddff
UPPER_BANK == 61183
LOWER_BANK == 56831
\* the status byte that announces dual return, 0x39
DUAL_RETURN_STATUS == 57
\* VLP16_DSR_TOFFSET 2.304 us, VLP16_FIRING_TOFFSET 55.296 us, VLP16_BLOCK_TDURATION
\* 110.592 us, in units of 2.304 us
VLP16_DSR_TOFFSET == 1
VLP16_FIRING_TOFFSET == 24
VLP16_BLOCK_TDURATION == 48
\* DISTANCE_RESOLUTION 0.002 m, in millimetres
DISTANCE_RESOLUTION == 2

----------------------------------------------------------------------------
(* C arithmetic *)

\* a % b of C for b > 0: the result has the sign of a
CRem(a, b) == IF a >= 0 THEN a % b ELSE -((-a) % b)

\* a / b of C for b > 0: truncation toward zero
CDiv(a, b) == IF a >= 0 THEN a \div b ELSE -((-a) \div b)

\* round(num / den) of math.h for den > 0: halfway cases away from zero
RoundDiv(num, den) ==
  IF num >= 0 THEN (2 * num + den) \div (2 * den)
  ELSE -((2 * (-num) + den) \div (2 * den))

----------------------------------------------------------------------------
(* setParameters *)

FullCircle == ROTATION_MAX_UNITS * AngleSubdiv

\* fmod(fmod(a, 2*M_PI) + 2*M_PI, 2*M_PI)
PositiveModulo(a) == CRem(CRem(a, FullCircle) + FullCircle, FullCircle)

\* (int)(100 * (2*M_PI - tmp) * 180 / M_PI + 0.5)
ToHardwareAngle(tmp) == CDiv(2 * (FullCircle - tmp) + AngleSubdiv, 2 * AngleSubdiv)

\* NormalizeAngles without the test of line 74
NormalizeAnglesMissing(mn, mx) == << mn, mx >>

\* lines 74..79: the pair stored for a converted pair
NormalizeAngles(mn, mx) == IF mn = mx THEN << 0, 36000 >> ELSE << mn, mx >>

\* the whole of setParameters on config c
SetParametersResult(c, min_range, max_range, view_direction, view_width, frame_id, fixed_frame_id) ==
  LET tmin == PositiveModulo(view_direction + view_width \div 2)
      tmax == PositiveModulo(view_direction - view_width \div 2)
      pair == NormalizeAngles(ToHardwareAngle(tmin), ToHardwareAngle(tmax))
  IN  [ min_range |-> min_range, max_range |-> max_range,
        tmp_min_angle |-> tmin, tmp_max_angle |-> tmax,
        min_angle |-> pair[1], max_angle |-> pair[2],
        frame_id |-> frame_id, fixed_frame_id |-> fixed_frame_id ]

\* the arguments the parameter collaborator hands over
\* (view_direction, view_width) on the angle grid; view_width is an even number of steps
Views == { << 0, 36000 * AngleSubdiv >>,
           << -50 * AngleSubdiv, 300 * AngleSubdiv >>,
           << -150 * AngleSubdiv, 100 * AngleSubdiv >>,
           << 9000 * AngleSubdiv, 18000 * AngleSubdiv >>,
           << -100 * AngleSubdiv, 2 >> }
Ranges == { << 1000, 100000 >> }
\* (frame_id, fixed_frame_id): a target frame is configured with the first two views
Frames(v) ==
  IF v[2] \in { 36000 * AngleSubdiv, 300 * AngleSubdiv }
    THEN { << "", "" >>, << "base", "odom" >> }
    ELSE { << "", "" >> }

----------------------------------------------------------------------------
(* The calibration the calibration reader hands to setup *)

SupportedLasers == { 16, 32, 64 }

\* ring of a laser in the shipped calibration files: even lasers fill the lower
\* half of the rings, odd lasers the upper half (a permutation of 0..n-1)
LaserRing(n, laser) == IF laser % 2 = 0 THEN laser \div 2 ELSE n \div 2 + laser \div 2

\* LaserCorrection of one laser: the fields the gates and the grid read
\* (focal_slope is 0 in these files, so the intensity is the clamped raw byte)
LaserCorrection(n, laser) ==
  [ laser_ring |-> LaserRing(n, laser),
    dist_correction |-> IF laser % 2 = 0 THEN 0 ELSE 400,
    min_intensity |-> 0,
    max_intensity |-> 40 ]

Calibration(ok, n) ==
  [ initialized |-> ok, num_lasers |-> n,
    laser_corrections |-> [ l \in 0 .. n - 1 |-> LaserCorrection(n, l) ] ]

\* what Calibration::read can leave behind: an unreadable file, or a file of any beam count
CalibrationFiles ==
  { Calibration(FALSE, 0) } \cup { Calibration(TRUE, n) : n \in { 0, 8, 40 } \cup SupportedLasers }

----------------------------------------------------------------------------
(* The scan: packets of BLOCKS_PER_PACKET blocks of SCANS_PER_BLOCK readings *)

\* the rotation codes of a scan: start, step per block (or per pair of blocks), the
\* growth of the step (a sensor that speeds up), and the modulus (36000 for a
\* sensor that wraps, 65536 for arbitrary 16 bit codes)
RotationPatterns ==
  { [ r0 |-> 100,   step |-> 40,   accel |-> 0, mod |-> 36000 ],
    [ r0 |-> 35900, step |-> 20,   accel |-> 0, mod |-> 36000 ],
    [ r0 |-> 35900, step |-> 20,   accel |-> 0, mod |-> 65536 ],
    [ r0 |-> 200,   step |-> 0,    accel |-> 0, mod |-> 36000 ],
    [ r0 |-> 35000, step |-> 3000, accel |-> 0, mod |-> 65536 ],
    [ r0 |-> 35800, step |-> 10,   accel |-> 1, mod |-> 36000 ] }

\* the scans handed to unpack: every rotation pattern with well-formed upper bank
\* headers, the first pattern with the other header layouts; dual return packets
\* carry mixed readings
Scans ==
  { s \in [ packets : { 1, MaxPackets },
            headers : { "upper", "alternate", "mangled" },
            rotations : RotationPatterns,
            readings : { "good", "mixed" },
            dual : BOOLEAN ] :
      /\ s.headers # "upper" => s.rotations.r0 = 100
      /\ s.dual => s.readings = "mixed" /\ s.headers # "alternate" }

\* raw->blocks[b].header of packet p
Header(s, p, b) ==
  CASE s.headers = "upper" -> UPPER_BANK
    [] s.headers = "alternate" -> IF b % 2 = 0 THEN UPPER_BANK ELSE LOWER_BANK
    [] OTHER -> IF p = 0 /\ b = 3 THEN 4660 ELSE UPPER_BANK

\* raw->blocks[b].rotation of packet p (uint16_t); the two blocks of a pair share
\* one code under dual return and in the alternating bank layout
Rotation(s, p, b) ==
  LET i == IF s.dual \/ s.headers = "alternate" THEN b \div 2 ELSE b
      k == p * BLOCKS_PER_PACKET + i
  IN  (s.rotations.r0 + s.rotations.step * k + s.rotations.accel * k * k) % s.rotations.mod

\* the 16 bit distance code of reading j of block b (tmp.uint)
DistanceCode(s, p, b, j) ==
  IF s.readings = "good" THEN 5000
  ELSE CASE (b + j) % 4 = 0 -> 5000
         [] (b + j) % 4 = 1 -> 0
         [] (b + j) % 4 = 2 -> 400
         [] OTHER -> 65535

\* the reflectivity byte of reading j of block b
RawIntensity(s, p, b, j) == 10 + j

\* raw->status[PACKET_STATUS_SIZE-2] of packet p
StatusByte(s, p) == IF s.dual THEN DUAL_RETURN_STATUS ELSE 55

\* whether tf_listener_->transformPoint returns (TRUE) or throws (FALSE) for a reading
TransformSucceeds(s, p, b, j) == s.readings = "good" \/ (b + j) % 3 # 1

----------------------------------------------------------------------------
(* Points and the organized cloud *)

\* x, y, z are written together from (laser calibration, azimuth, distance); a
\* position is recorded by the frame it is expressed in, "NaN" while unset
NaNPosition == "NaN"
Position(frame) == frame

\* the number of a reading in its scan
ReadingId(p, b, j) == (p * BLOCKS_PER_PACKET + b) * SCANS_PER_BLOCK + j

\* nanPoint / nan_point; writes and src are history: how often the cell's ring was
\* written and the reading (ReadingId) that wrote it last
NanPoint == [ pos |-> NaNPosition, intensity |-> 0, ring |-> -1, writes |-> 0, src |-> -1 ]

\* the cloud before unpack has filled it
NoCloud == [ width |-> 0, height |-> 0, frame_id |-> "", points |-> << >> ]

\* pc.points.resize(pc.width * pc.height, nanPoint), points indexed from 0
NewCloud(width, height, frame_id) ==
  [ width |-> width, height |-> height, frame_id |-> frame_id,
    points |-> [ i \in 0 .. width * height - 1 |-> NanPoint ] ]

\* the index pcl::PointCloud::at(column, row) reads: points.at(row * width + column)
PointIndex(cloud, col, row) == row * cloud.width + col

\* whether pc.at(col, row) is a cell of the grid
InGrid(cloud, col, row) == col >= 0 /\ col < cloud.width /\ row >= 0 /\ row < cloud.height

\* the frame the cloud is expressed in (lines 159..162 and 385..388)
OutputFrame(listener, cfg, s) ==
  IF listener = FALSE \/ cfg.frame_id = "" THEN "velodyne" ELSE cfg.frame_id

\* whether points are handed to the transform listener (lines 319 and 582)
UsesTransform(listener, cfg) == ~(listener = FALSE \/ cfg.frame_id = "")

----------------------------------------------------------------------------
(* The gates *)

\* AngleGateUnpack with the upper bound of a plain window exclusive
AngleGateUnpackExclusive(rotation, min_angle, max_angle) ==
  \/ (rotation >= min_angle /\ rotation < max_angle /\ min_angle < max_angle)
  \/ (min_angle > max_angle /\ (rotation <= max_angle \/ rotation >= min_angle))

\* unpack, lines 197..202
AngleGateUnpack(rotation, min_angle, max_angle) ==
  \/ (rotation >= min_angle /\ rotation <= max_angle /\ min_angle < max_angle)
  \/ (min_angle > max_angle /\ (rotation <= max_angle \/ rotation >= min_angle))

\* unpack_vlp16, lines 454..459
AngleGateVlp16(azimuth_corrected, min_angle, max_angle) ==
  \/ (azimuth_corrected >= min_angle /\ azimuth_corrected <= max_angle /\ min_angle < max_angle)
  \/ (min_angle > max_angle /\ (azimuth_corrected <= max_angle \/ azimuth_corrected >= min_angle))

\* RawData::pointInRange (rawdata.h)
pointInRange(cfg, range) == range >= cfg.min_range /\ range <= cfg.max_range

\* float distance = tmp.uint * DISTANCE_RESOLUTION; distance += corrections.dist_correction
CorrectedDistance(code, corrections) == code * DISTANCE_RESOLUTION + corrections.dist_correction

\* the intensity of a reading, clamped to the laser's limits (lines 287..299, focal_slope 0)
ClampedIntensity(raw, corrections) ==
  LET lo == IF raw < corrections.min_intensity THEN corrections.min_intensity ELSE raw
  IN  IF lo > corrections.max_intensity THEN corrections.max_intensity ELSE lo

\* history: one evaluation of the angle gate
GateRecord(code, cfg, accepted) ==
  [ code |-> code, min |-> cfg.min_angle, max |-> cfg.max_angle, accepted |-> accepted ]

----------------------------------------------------------------------------
(* unpack: the legacy 32/64 beam layout *)

\* UnpackWrite that skips the ring of a reading out of range
UnpackWriteRingAfterRange(old, ring, inRange, usesTransform, transformOk, intensity, sensor, target, src) ==
  LET counted == [ old EXCEPT !.writes = @ + 1, !.src = src ]
      ringed == [ counted EXCEPT !.ring = ring ]
  IN  IF ~inRange THEN counted
      ELSE IF ~usesTransform THEN [ ringed EXCEPT !.intensity = intensity, !.pos = sensor ]
      ELSE IF ~transformOk THEN [ ringed EXCEPT !.intensity = intensity ]
      ELSE [ ringed EXCEPT !.intensity = intensity, !.pos = target ]

\* lines 301..353: what one accepted reading leaves in its cell
\*   old: the cell before; src: the reading; sensor / target: the position in the
\*   sensor frame and after the transform
UnpackWrite(old, ring, inRange, usesTransform, transformOk, intensity, sensor, target, src) ==
  LET ringed == [ old EXCEPT !.ring = ring, !.writes = @ + 1, !.src = src ]
  IN  IF ~inRange THEN ringed
      ELSE IF ~usesTransform THEN [ ringed EXCEPT !.intensity = intensity, !.pos = sensor ]
      ELSE IF ~transformOk THEN [ ringed EXCEPT !.intensity = intensity ]
      ELSE [ ringed EXCEPT !.intensity = intensity, !.pos = target ]

\* BankOrigin that never selects the lower bank
BankOriginUpperOnly(header) == 0

\* lines 174..178: the bank a block header selects
BankOrigin(header) == IF header = LOWER_BANK THEN 32 ELSE 0

\* UnpackColumn computed from the counter after its increment
UnpackColumnAfterIncrement(n, num_lasers) == (n + 1) \div num_lasers

\* lines 302..303: the cell of the reading counted n
UnpackColumn(n, num_lasers) == n \div num_lasers
UnpackRow(num_lasers, ring) == num_lasers - 1 - ring

\* lines 180..355: the body of the loop over the readings of a block, on
\*   acc = [ points, n, gates, fault ]
UnpackReading(acc, j) ==
  LET laser_number == j + BankOrigin(Header(scanMsg, packet, block))
      rotation == Rotation(scanMsg, packet, block)
      accepted == AngleGateUnpack(rotation, config_.min_angle, config_.max_angle)
      logged == [ acc EXCEPT !.gates = @ \cup { GateRecord(rotation, config_, accepted) } ]
  IN  IF laser_number >= calibration_.num_lasers
        THEN [ acc EXCEPT !.fault = "laser_corrections index out of range" ]
      ELSE IF ~accepted THEN logged
      ELSE IF rotation >= ROTATION_MAX_UNITS
        THEN [ logged EXCEPT !.fault = "rotation table index out of range" ]
      ELSE
        LET corrections == calibration_.laser_corrections[laser_number]
            code == DistanceCode(scanMsg, packet, block, j)
            distance == CorrectedDistance(code, corrections)
            col == UnpackColumn(acc.n, calibration_.num_lasers)
            row == UnpackRow(calibration_.num_lasers, corrections.laser_ring)
            idx == PointIndex(pc, col, row)
        IN  IF ~InGrid(pc, col, row)
              THEN [ logged EXCEPT !.n = @ + 1, !.fault = "pc.at outside the grid" ]
            ELSE [ logged EXCEPT
                     !.n = @ + 1,
                     !.points[idx] =
                        UnpackWrite(@, corrections.laser_ring,
                                    pointInRange(config_, distance),
                                    UsesTransform(tf_listener_, config_),
                                    TransformSucceeds(scanMsg, packet, block, j),
                                    ClampedIntensity(RawIntensity(scanMsg, packet, block, j), corrections),
                                    Position("velodyne"), Position(pc.frame_id),
                                    ReadingId(packet, block, j)) ]

\* the loop over the readings of one block, from reading j on
RECURSIVE UnpackReadings(_, _)
UnpackReadings(acc, j) ==
  IF j >= SCANS_PER_BLOCK \/ acc.fault # "" THEN acc
  ELSE UnpackReadings(UnpackReading(acc, j), j + 1)

----------------------------------------------------------------------------
(* unpack_vlp16: the interleaved 16 beam layout *)

\* line 408: the index step to the next block with a new azimuth
IndexStep(dual_return) == IF dual_return THEN 2 ELSE 1

\* AzimuthDiff that stops looking ahead one block early
AzimuthDiffShortLookahead(s, p, b, i_diff, last_diff) ==
  IF b < BLOCKS_PER_PACKET - i_diff - 1
    THEN CRem(36000 + Rotation(s, p, b + i_diff) - Rotation(s, p, b), 36000)
    ELSE last_diff

\* lines 424..430: the azimuth difference used for block b
AzimuthDiff(s, p, b, i_diff, last_diff) ==
  IF b < BLOCKS_PER_PACKET - i_diff
    THEN CRem(36000 + Rotation(s, p, b + i_diff) - Rotation(s, p, b), 36000)
    ELSE last_diff

\* lines 436..448: ((int) round(azimuth + azimuth_diff * t_beam / VLP16_BLOCK_TDURATION)) % 36000
AzimuthCorrected(azimuth, azimuth_diff, firing, dsr) ==
  LET t_beam == dsr * VLP16_DSR_TOFFSET + firing * VLP16_FIRING_TOFFSET
  IN  CRem(RoundDiv(azimuth * VLP16_BLOCK_TDURATION + azimuth_diff * t_beam,
                    VLP16_BLOCK_TDURATION), 36000)

\* Vlp16Column whose single return branch leaves out the stride of a block
Vlp16ColumnNoStride(dual_return, p, b, firing) ==
  IF dual_return
    THEN p * BLOCKS_PER_PACKET * VLP16_FIRINGS_PER_BLOCK
         + (b \div 2) * 2 * VLP16_FIRINGS_PER_BLOCK + firing * 2 + (b % 2)
    ELSE p * BLOCKS_PER_PACKET * VLP16_FIRINGS_PER_BLOCK + b + firing

\* Vlp16Column whose dual return branch leaves out the return channel
Vlp16ColumnOneChannel(dual_return, p, b, firing) ==
  IF dual_return
    THEN p * BLOCKS_PER_PACKET * VLP16_FIRINGS_PER_BLOCK
         + (b \div 2) * 2 * VLP16_FIRINGS_PER_BLOCK + firing * 2
    ELSE p * BLOCKS_PER_PACKET * VLP16_FIRINGS_PER_BLOCK
         + b * VLP16_FIRINGS_PER_BLOCK + firing

\* lines 564..575: the column of a reading
Vlp16Column(dual_return, p, b, firing) ==
  IF dual_return
    THEN p * BLOCKS_PER_PACKET * VLP16_FIRINGS_PER_BLOCK
         + (b \div 2) * 2 * VLP16_FIRINGS_PER_BLOCK + firing * 2 + (b % 2)
    ELSE p * BLOCKS_PER_PACKET * VLP16_FIRINGS_PER_BLOCK
         + b * VLP16_FIRINGS_PER_BLOCK + firing

\* Vlp16Write that stores the point only after the range test
Vlp16WriteRingAfterRange(old, ring, inRange, usesTransform, transformOk, intensity, sensor, target, src) ==
  LET point == [ pos |-> NaNPosition, intensity |-> 0, ring |-> ring,
                 writes |-> old.writes + 1, src |-> src ]
  IN  IF ~inRange THEN [ old EXCEPT !.writes = @ + 1, !.src = src ]
      ELSE IF ~usesTransform THEN [ point EXCEPT !.pos = sensor, !.intensity = intensity % 256 ]
      ELSE IF ~transformOk THEN point
      ELSE [ point EXCEPT !.pos = target, !.intensity = intensity % 256 ]

\* lines 558..612: what one accepted reading leaves in its cell
Vlp16Write(old, ring, inRange, usesTransform, transformOk, intensity, sensor, target, src) ==
  LET point == [ pos |-> NaNPosition, intensity |-> 0, ring |-> ring,
                 writes |-> old.writes + 1, src |-> src ]
  IN  IF ~inRange THEN point
      ELSE IF ~usesTransform THEN [ point EXCEPT !.pos = sensor, !.intensity = intensity % 256 ]
      ELSE IF ~transformOk THEN point
      ELSE [ point EXCEPT !.pos = target, !.intensity = intensity % 256 ]

\* lines 434..614: the body of the loop over the beams of a firing
Vlp16Reading(acc, dual_return, azimuth, azimuth_diff, firing, dsr) ==
  LET corrections == calibration_.laser_corrections[dsr]
      j == firing * VLP16_SCANS_PER_FIRING + dsr
      azimuth_corrected == AzimuthCorrected(azimuth, azimuth_diff, firing, dsr)
      accepted == AngleGateVlp16(azimuth_corrected, config_.min_angle, config_.max_angle)
      logged == [ acc EXCEPT !.gates = @ \cup { GateRecord(azimuth_corrected, config_, accepted) } ]
  IN  IF ~accepted THEN logged
      ELSE IF azimuth_corrected < 0 \/ azimuth_corrected >= ROTATION_MAX_UNITS
        THEN [ logged EXCEPT !.fault = "rotation table index out of range" ]
      ELSE
        LET code == DistanceCode(scanMsg, packet, block, j)
            distance == CorrectedDistance(code, corrections)
            row == calibration_.num_lasers - 1 - corrections.laser_ring
            col == Vlp16Column(dual_return, packet, block, firing)
            idx == PointIndex(pc, col, row)
        IN  IF ~InGrid(pc, col, row)
              THEN [ logged EXCEPT !.fault = "pc.at outside the grid" ]
            ELSE [ logged EXCEPT
                     !.points[idx] =
                        Vlp16Write(@, corrections.laser_ring,
                                   pointInRange(config_, distance),
                                   UsesTransform(tf_listener_, config_),
                                   TransformSucceeds(scanMsg, packet, block, j),
                                   ClampedIntensity(RawIntensity(scanMsg, packet, block, j), corrections),
                                   Position("velodyne"), Position(config_.frame_id),
                                   ReadingId(packet, block, j)) ]

\* the loops over the firings of a block and the beams of a firing, from reading j on
RECURSIVE Vlp16Readings(_, _, _, _, _)
Vlp16Readings(acc, dual_return, azimuth, azimuth_diff, j) ==
  IF j >= VLP16_FIRINGS_PER_BLOCK * VLP16_SCANS_PER_FIRING \/ acc.fault # "" THEN acc
  ELSE Vlp16Readings(Vlp16Reading(acc, dual_return, azimuth, azimuth_diff,
                                  j \div VLP16_SCANS_PER_FIRING, j % VLP16_SCANS_PER_FIRING),
                     dual_return, azimuth, azimuth_diff, j + 1)

----------------------------------------------------------------------------
(* The state machine *)

NoScan == [ packets |-> 0, headers |-> "upper",
            rotations |-> [ r0 |-> 0, step |-> 0, accel |-> 0, mod |-> 36000 ],
            readings |-> "good", dual |-> FALSE ]

\* config_ before the first setParameters
NoConfig == [ min_range |-> 0, max_range |-> 0, tmp_min_angle |-> 0, tmp_max_angle |-> 0,
              min_angle |-> 0, max_angle |-> 0, frame_id |-> "", fixed_frame_id |-> "" ]

\* no setParameters call in progress
SpIdle == [ pc |-> "idle", view_direction |-> 0, view_width |-> 0,
            frame_id |-> "", fixed_frame_id |-> "" ]

Init ==
  /\ phase = "constructed"
  /\ calibration_ = Calibration(FALSE, 0)
  /\ tf_listener_ = FALSE
  /\ config_ = NoConfig
  /\ configured = FALSE
  /\ scanMsg = NoScan
  /\ pc = NoCloud
  /\ packet = 0
  /\ block = 0
  /\ n_points = 0
  /\ last_azimuth_diff = 0
  /\ gateLog = {}
  /\ fault = ""
  /\ snapshot = << 0, 0 >>
  /\ sp = SpIdle
  /\ installed = {}

\* RawData::setup: the calibration is read, the listener stored; -1 iff the
\* calibration is not initialized
SetupResult(cal) == IF ~cal.initialized THEN -1 ELSE 0

\* the transform listener the caller hands to setup (never NULL)
Listeners == { TRUE }

Setup ==
  /\ phase = "constructed"
  /\ \E cal \in CalibrationFiles, listener \in Listeners :
       /\ calibration_' = cal
       /\ IF SetupResult(cal) # 0
            THEN phase' = "setup_failed" /\ UNCHANGED tf_listener_
            ELSE phase' = "ready" /\ tf_listener_' = listener
  /\ UNCHANGED << config_, configured, scanMsg, pc, packet, block, n_points,
                  last_azimuth_diff, gateLog, fault, snapshot, sp, installed >>

\* RawData::setParameters, run to completion between scans
SetParameters ==
  /\ phase = "ready"
  /\ sp.pc = "idle"
  /\ \E r \in Ranges, v \in Views :
     \E f \in Frames(v) :
       config_' = SetParametersResult(config_, r[1], r[2], v[1], v[2], f[1], f[2])
  /\ configured' = TRUE
  /\ UNCHANGED << phase, calibration_, tf_listener_, scanMsg, pc, packet, block, n_points,
                  last_azimuth_diff, gateLog, fault, snapshot, sp, installed >>

\* RawData::unpack up to the first packet: the path is chosen, the cloud allocated
StartUnpackOf(scans) ==
  /\ phase = "ready"
  /\ configured
  /\ \E s \in scans :
       /\ scanMsg' = s
       /\ IF calibration_.num_lasers = 16
            THEN /\ pc' = NewCloud(s.packets * BLOCKS_PER_PACKET * VLP16_FIRINGS_PER_BLOCK,
                                   calibration_.num_lasers,
                                   OutputFrame(tf_listener_, config_, s))
                 /\ phase' = "decoding"
                 /\ fault' = ""
          ELSE IF calibration_.num_lasers = 0
            THEN /\ pc' = NoCloud
                 /\ phase' = "undefined"
                 /\ fault' = "division by zero"
          ELSE   /\ pc' = NewCloud((s.packets * SCANS_PER_PACKET) \div calibration_.num_lasers,
                                   calibration_.num_lasers,
                                   OutputFrame(tf_listener_, config_, s))
                 /\ phase' = "decoding"
                 /\ fault' = ""
  /\ packet' = 0
  /\ block' = 0
  /\ n_points' = 0
  /\ last_azimuth_diff' = 0
  /\ gateLog' = {}
  /\ snapshot' = << config_.min_angle, config_.max_angle >>
  /\ installed' = { << config_.min_angle, config_.max_angle >> }
  /\ UNCHANGED << calibration_, tf_listener_, config_, configured, sp >>

StartUnpack == StartUnpackOf(Scans)

\* MangledHeader that lets the lower bank marker pass as well
MangledHeaderLenient(header) == header \notin { UPPER_BANK, LOWER_BANK }

\* line 413: the sanity check of a block of the interleaved layout
MangledHeader(header) == UPPER_BANK # header

\* the loop variables after block b of packet p, and whether the scan is exhausted
Advance ==
  IF block + 1 < BLOCKS_PER_PACKET
    THEN packet' = packet /\ block' = block + 1 /\ phase' = "decoding"
    ELSE /\ packet' = packet + 1
         /\ block' = 0
         /\ phase' = IF packet + 1 < scanMsg.packets THEN "decoding" ELSE "done"

\* unpack: one block of the legacy layout (lines 170..356)
UnpackBlock ==
  /\ phase = "decoding"
  /\ calibration_.num_lasers # 16
  /\ LET acc == UnpackReadings([ points |-> pc.points, n |-> n_points, gates |-> {}, fault |-> "" ], 0)
     IN  /\ pc' = [ pc EXCEPT !.points = acc.points ]
         /\ n_points' = acc.n
         /\ gateLog' = acc.gates
         /\ fault' = acc.fault
         /\ IF acc.fault # ""
              THEN phase' = "undefined" /\ UNCHANGED << packet, block >>
              ELSE Advance
  /\ UNCHANGED << calibration_, tf_listener_, config_, configured, scanMsg,
                  last_azimuth_diff, snapshot, sp, installed >>

\* unpack_vlp16: one block of the interleaved layout (lines 411..616)
UnpackVlp16Block ==
  /\ phase = "decoding"
  /\ calibration_.num_lasers = 16
  /\ LET dual_return == StatusByte(scanMsg, packet) = DUAL_RETURN_STATUS
         i_diff == IndexStep(dual_return)
         azimuth == Rotation(scanMsg, packet, block)
         azimuth_diff == AzimuthDiff(scanMsg, packet, block, i_diff, last_azimuth_diff)
         acc == Vlp16Readings([ points |-> pc.points, n |-> n_points, gates |-> {}, fault |-> "" ],
                              dual_return, azimuth, azimuth_diff, 0)
     IN  IF MangledHeader(Header(scanMsg, packet, block))
           THEN /\ phase' = "done"
                /\ gateLog' = {}
                /\ UNCHANGED << pc, packet, block, last_azimuth_diff, fault >>
           ELSE /\ pc' = [ pc EXCEPT !.points = acc.points ]
                /\ last_azimuth_diff' = azimuth_diff
                /\ gateLog' = acc.gates
                /\ fault' = acc.fault
                /\ IF acc.fault # ""
                     THEN phase' = "undefined" /\ UNCHANGED << packet, block >>
                     ELSE Advance
  /\ UNCHANGED << calibration_, tf_listener_, config_, configured, scanMsg, n_points,
                  snapshot, sp, installed >>

\* the caller takes the cloud; the decoder is ready for the next scan
Deliver ==
  /\ phase = "done"
  /\ phase' = "ready"
  /\ scanMsg' = NoScan
  /\ pc' = NoCloud
  /\ packet' = 0
  /\ block' = 0
  /\ n_points' = 0
  /\ last_azimuth_diff' = 0
  /\ gateLog' = {}
  /\ snapshot' = << 0, 0 >>
  /\ installed' = {}
  /\ UNCHANGED << calibration_, tf_listener_, config_, configured, fault, sp >>

Next ==
  \/ Setup
  \/ SetParameters
  \/ StartUnpack
  \/ UnpackBlock
  \/ UnpackVlp16Block
  \/ Deliver

Spec == Init /\ [][Next]_vars

----------------------------------------------------------------------------
(* setParameters running while a scan is decoded: RawData holds no lock, the
   writes of lines 59..91 interleave with the blocks of unpack *)

\* lines 59..68: the ranges and the temporary angles
SetParametersTmp(c, min_range, max_range, view_direction, view_width) ==
  [ c EXCEPT !.min_range = min_range, !.max_range = max_range,
             !.tmp_min_angle = PositiveModulo(view_direction + view_width \div 2),
             !.tmp_max_angle = PositiveModulo(view_direction - view_width \div 2) ]

\* the views and the scans of the concurrent runs
ConcViews == { << -50 * AngleSubdiv, 300 * AngleSubdiv >>, << -100 * AngleSubdiv, 2 >> }
ConcScans == { s \in Scans : /\ s.packets = 1 /\ s.headers = "upper" /\ ~s.dual
                             /\ s.readings = "good" /\ s.rotations.r0 = 100 }

\* a decoder set up with a 16 or a 32 beam calibration and configured once
InitConc ==
  /\ phase = "ready"
  /\ calibration_ \in { Calibration(TRUE, 16), Calibration(TRUE, 32) }
  /\ tf_listener_ = TRUE
  /\ \E r \in Ranges, v \in ConcViews :
     \E f \in Frames(v) :
       config_ = SetParametersResult(NoConfig, r[1], r[2], v[1], v[2], f[1], f[2])
  /\ configured = TRUE
  /\ scanMsg = NoScan
  /\ pc = NoCloud
  /\ packet = 0
  /\ block = 0
  /\ n_points = 0
  /\ last_azimuth_diff = 0
  /\ gateLog = {}
  /\ fault = ""
  /\ snapshot = << 0, 0 >>
  /\ sp = SpIdle
  /\ installed = {}

\* unpack is entered while no setParameters call is in progress
StartUnpackConc == sp.pc \in { "idle", "returned" } /\ StartUnpackOf(ConcScans)

\* setParameters is entered while a scan is decoded (one call in a run) and runs
\* lines 59..72: the ranges, the temporary angles and min_angle are stored
SetParametersBegin ==
  /\ phase = "decoding"
  /\ sp.pc = "idle"
  /\ \E r \in Ranges, v \in ConcViews :
     \E f \in Frames(v) :
       /\ LET c == SetParametersTmp(config_, r[1], r[2], v[1], v[2])
          IN  config_' = [ c EXCEPT !.min_angle = ToHardwareAngle(c.tmp_min_angle) ]
       /\ sp' = [ pc |-> "max_angle", view_direction |-> v[1], view_width |-> v[2],
                  frame_id |-> f[1], fixed_frame_id |-> f[2] ]
  /\ UNCHANGED << phase, calibration_, tf_listener_, configured, scanMsg, pc, packet, block,
                  n_points, last_azimuth_diff, gateLog, fault, snapshot, installed >>

\* line 73
SetParametersMaxAngle ==
  /\ sp.pc = "max_angle"
  /\ config_' = [ config_ EXCEPT !.max_angle = ToHardwareAngle(config_.tmp_max_angle) ]
  /\ sp' = [ sp EXCEPT !.pc = "normalize" ]
  /\ UNCHANGED << phase, calibration_, tf_listener_, configured, scanMsg, pc, packet, block,
                  n_points, last_azimuth_diff, gateLog, fault, snapshot, installed >>

\* lines 74..92: the normalization, the frame ids, and the return
SetParametersFinish ==
  /\ sp.pc = "normalize"
  /\ LET pair == NormalizeAngles(config_.min_angle, config_.max_angle)
     IN  /\ config_' = [ config_ EXCEPT !.min_angle = pair[1], !.max_angle = pair[2],
                                        !.fixed_frame_id = sp.fixed_frame_id,
                                        !.frame_id = sp.frame_id ]
         /\ installed' = IF phase = "decoding" THEN installed \cup { pair } ELSE installed
  /\ sp' = [ SpIdle EXCEPT !.pc = "returned" ]
  /\ UNCHANGED << phase, calibration_, tf_listener_, configured, scanMsg, pc, packet, block,
                  n_points, last_azimuth_diff, gateLog, fault, snapshot >>

NextConc ==
  \/ StartUnpackConc
  \/ UnpackBlock
  \/ UnpackVlp16Block
  \/ Deliver
  \/ SetParametersBegin
  \/ SetParametersMaxAngle
  \/ SetParametersFinish

SpecConc == InitConc /\ [][NextConc]_vars

----------------------------------------------------------------------------
(* Vocabulary of the properties *)

\* the packet, block and index in its block of a reading (the inverse of ReadingId)
SrcPacket(id) == id \div (BLOCKS_PER_PACKET * SCANS_PER_BLOCK)
SrcBlock(id) == (id \div SCANS_PER_BLOCK) % BLOCKS_PER_PACKET
SrcIndex(id) == id % SCANS_PER_BLOCK

\* the hardware laser of a reading: the bank and position (legacy), the beam (interleaved)
SrcLaser(id) ==
  IF calibration_.num_lasers = 16 THEN SrcIndex(id) % VLP16_SCANS_PER_FIRING
  ELSE SrcIndex(id) + (IF Header(scanMsg, SrcPacket(id), SrcBlock(id)) = LOWER_BANK THEN 32 ELSE 0)

\* the corrected distance of a reading, and whether it lies in [min_range, max_range]
SrcDistance(id) ==
  2 * DistanceCode(scanMsg, SrcPacket(id), SrcBlock(id), SrcIndex(id))
    + calibration_.laser_corrections[SrcLaser(id)].dist_correction
SrcInRange(id) == config_.min_range <= SrcDistance(id) /\ SrcDistance(id) <= config_.max_range

\* the configured ring of the laser of a reading
SrcRing(id) == calibration_.laser_corrections[SrcLaser(id)].laser_ring

\* the cell of the grid at (col, row)
CellAt(col, row) == pc.points[row * pc.width + col]

Cells == DOMAIN pc.points

\* the window of the specification: inclusive bounds, wraparound when min > max
InWindow(code, min, max) ==
  IF min < max THEN min <= code /\ code <= max
  ELSE IF min > max THEN code >= min \/ code <= max
  ELSE FALSE

----------------------------------------------------------------------------
(* C1: every evaluation of the angle gate, in unpack and in unpack_vlp16, accepts
   the code iff min <= code <= max when min < max, and iff code >= min or
   code <= max when min > max; code 100 is accepted by the window (35900, 200)
   and code 500 is rejected by the window (100, 200). *)
C1_AngleGate ==
  /\ \A g \in gateLog :
       /\ g.min < g.max => (g.accepted <=> (g.min <= g.code /\ g.code <= g.max))
       /\ g.min > g.max => (g.accepted <=> (g.code >= g.min \/ g.code <= g.max))
       /\ (g.code = 100 /\ g.min = 35900 /\ g.max = 200) => g.accepted
       /\ (g.code = 500 /\ g.min = 100 /\ g.max = 200) => ~g.accepted
  /\ phase = "ready" /\ configured =>
       \A code \in { 0, 100, 200, 201, 500, 35899, 35900, 35999, 36000, 65535 } :
         /\ AngleGateUnpack(code, config_.min_angle, config_.max_angle)
              <=> InWindow(code, config_.min_angle, config_.max_angle)
         /\ AngleGateVlp16(code, config_.min_angle, config_.max_angle)
              <=> InWindow(code, config_.min_angle, config_.max_angle)

\* a block of the interleaved path whose beams straddle the edge of the wraparound
\* window (35900, 200): code 200 accepted, a later code rejected
C1_Witness ==
  /\ calibration_.num_lasers = 16
  /\ \E g, h \in gateLog :
       /\ g.min = 35900 /\ g.max = 200 /\ g.code = 200 /\ g.accepted
       /\ h.code > 200 /\ ~h.accepted

(* C2: after setParameters the stored pair satisfies min_angle # max_angle; a
   converted pair that came out equal is stored as (0, 36000); with that pair
   both gates accept every rotation code in [0, 36000). *)
C2_DegenerateWindow ==
  configured =>
    /\ config_.min_angle # config_.max_angle
    /\ ToHardwareAngle(config_.tmp_min_angle) = ToHardwareAngle(config_.tmp_max_angle) =>
         /\ config_.min_angle = 0
         /\ config_.max_angle = 36000
         /\ \A g \in gateLog : (0 <= g.code /\ g.code < 36000) => g.accepted
         /\ phase = "ready" =>
              \A code \in 0 .. 35999 :
                /\ AngleGateUnpack(code, config_.min_angle, config_.max_angle)
                /\ AngleGateVlp16(code, config_.min_angle, config_.max_angle)

\* the view of width two grid steps converts to (100, 100); code 150 is gated
C2_Witness ==
  /\ configured
  /\ config_.tmp_min_angle # config_.tmp_max_angle
  /\ ToHardwareAngle(config_.tmp_min_angle) = 100
  /\ ToHardwareAngle(config_.tmp_max_angle) = 100
  /\ \E g \in gateLog : g.code = 150 /\ g.accepted

\* a cell whose last ring write came from a reading out of range carries that
\* reading's ring and nothing else
RingOnly(c) ==
  /\ c.ring = SrcRing(c.src)
  /\ c.ring >= 0 /\ c.ring < calibration_.num_lasers
  /\ c.pos = NaNPosition
  /\ c.intensity = 0

(* C3, as claimed: at the end of the decode the cell of every accepted reading
   whose corrected distance is outside [min_range, max_range] carries the
   beam's ring, a NaN position and intensity 0 (stated for the reading that
   wrote the cell's ring last). *)
C3_RangeGateEveryReading ==
  phase = "done" =>
    \A i \in Cells :
      (pc.points[i].writes >= 1 /\ ~SrcInRange(pc.points[i].src)) => RingOnly(pc.points[i])

(* C3, amended: the same for every such reading that is the only accepted
   reading assigned to its cell, in a decode that runs to its end; in the
   interleaved path every accepted reading is the only one of its cell. *)
C3_RangeGate ==
  phase = "done" =>
    /\ \A i \in Cells :
         (pc.points[i].writes = 1 /\ ~SrcInRange(pc.points[i].src)) => RingOnly(pc.points[i])
    /\ calibration_.num_lasers = 16 => \A i \in Cells : pc.points[i].writes <= 1

\* both paths have ended a scan with a reading below min_range and a reading
\* beyond max_range in cells of their own
C3_Witness ==
  /\ phase = "done"
  /\ \E i, k \in Cells :
       /\ pc.points[i].writes = 1 /\ pc.points[k].writes = 1
       /\ SrcDistance(pc.points[i].src) < config_.min_range
       /\ SrcDistance(pc.points[k].src) > config_.max_range
       /\ pc.points[i].ring >= 0 /\ pc.points[i].pos = NaNPosition
  /\ \E i \in Cells : pc.points[i].pos # NaNPosition

(* C4: legacy path, 32 or 64 beams, block headers following the layout, every
   block accepted by the angle gate, every reading in range: every cell of the
   grid was written exactly once, the cell in row r carries ring
   beam_count-1-r, and so every column holds every ring exactly once. *)
LayoutFollowed ==
  \A p \in 0 .. scanMsg.packets - 1 : \A b \in 0 .. BLOCKS_PER_PACKET - 1 :
    Header(scanMsg, p, b) =
      (IF calibration_.num_lasers = 64 /\ b % 2 = 1 THEN LOWER_BANK ELSE UPPER_BANK)

EveryBlockInWindow ==
  \A p \in 0 .. scanMsg.packets - 1 : \A b \in 0 .. BLOCKS_PER_PACKET - 1 :
    InWindow(Rotation(scanMsg, p, b), config_.min_angle, config_.max_angle)

C4_Premise ==
  /\ phase = "done"
  /\ calibration_.num_lasers \in { 32, 64 }
  /\ LayoutFollowed
  /\ EveryBlockInWindow
  /\ scanMsg.readings = "good"

C4_LegacyColumns ==
  C4_Premise =>
    /\ pc.height = calibration_.num_lasers
    /\ pc.width = (scanMsg.packets * SCANS_PER_PACKET) \div calibration_.num_lasers
    /\ \A col \in 0 .. pc.width - 1 :
         /\ \A row \in 0 .. pc.height - 1 :
              /\ CellAt(col, row).ring = calibration_.num_lasers - 1 - row
              /\ CellAt(col, row).writes = 1
         /\ \A ring \in 0 .. calibration_.num_lasers - 1 :
              Cardinality({ row \in 0 .. pc.height - 1 : CellAt(col, row).ring = ring }) = 1

\* a 64 beam scan of MaxPackets packets, banks alternating, decoded to its end
C4_Witness ==
  /\ C4_Premise
  /\ calibration_.num_lasers = 64
  /\ scanMsg.packets = MaxPackets
  /\ CellAt(pc.width - 1, 0).ring = 63

\* the column and row of a cell of the grid
ColOf(i) == i % pc.width
RowOf(i) == i \div pc.width

\* the firing of a reading of the interleaved layout
SrcFiring(id) == SrcIndex(id) \div VLP16_SCANS_PER_FIRING

\* << packet, block, firing >> of the reading that wrote a cell
SrcTriple(id) == << SrcPacket(id), SrcBlock(id), SrcFiring(id) >>

\* the columns in which readings of packet p have been placed
ColumnsOf(p) ==
  { ColOf(i) : i \in { k \in Cells : pc.points[k].writes >= 1 /\ SrcPacket(pc.points[k].src) = p } }

\* the readings placed in column col, as << packet, block, firing >>
TriplesIn(col) ==
  { SrcTriple(CellAt(col, row).src) :
      row \in { r \in 0 .. pc.height - 1 : CellAt(col, r).writes >= 1 } }

ColumnsPerPacket == BLOCKS_PER_PACKET * VLP16_FIRINGS_PER_BLOCK

\* every reading of the scan passes the angle gate and no header is mangled: the
\* window is the full circle and no azimuth difference is negative
WholeScanDecoded ==
  /\ phase = "done"
  /\ scanMsg.headers = "upper"
  /\ config_.min_angle = 0 /\ config_.max_angle = 36000
  /\ \A p \in 0 .. scanMsg.packets - 1, b \in 0 .. BLOCKS_PER_PACKET - 1, d \in { 1, 2 } :
       b + d < BLOCKS_PER_PACKET => Rotation(scanMsg, p, b) <= 36000 + Rotation(scanMsg, p, b + d)

(* C5: interleaved path, single return: every reading placed in the grid sits
   in column packet*blocks_per_packet*firings_per_block
   + block*firings_per_block + firing; no column holds readings of two
   (packet, block, firing) triples and no cell is written twice; the columns
   of different packets are disjoint, and a packet decoded whole occupies
   exactly blocks_per_packet*firings_per_block columns, whatever the azimuth
   difference between its blocks. *)
C5_SingleReturnColumns ==
  (calibration_.num_lasers = 16 /\ phase \in { "decoding", "done" } /\ ~scanMsg.dual) =>
    /\ \A i \in Cells :
         pc.points[i].writes >= 1 =>
           /\ pc.points[i].writes = 1
           /\ ColOf(i) = SrcPacket(pc.points[i].src) * ColumnsPerPacket
                         + SrcBlock(pc.points[i].src) * VLP16_FIRINGS_PER_BLOCK
                         + SrcFiring(pc.points[i].src)
    /\ \A col \in 0 .. pc.width - 1 : Cardinality(TriplesIn(col)) <= 1
    /\ \A p, q \in 0 .. scanMsg.packets - 1 : p # q => ColumnsOf(p) \cap ColumnsOf(q) = {}
    /\ WholeScanDecoded =>
         \A p \in 0 .. scanMsg.packets - 1 : Cardinality(ColumnsOf(p)) = ColumnsPerPacket

\* MaxPackets single return packets of constant azimuth, decoded whole
C5_Witness ==
  /\ calibration_.num_lasers = 16
  /\ ~scanMsg.dual
  /\ WholeScanDecoded
  /\ scanMsg.packets = MaxPackets
  /\ scanMsg.rotations.step = 0
  /\ last_azimuth_diff = 0
  /\ Cardinality(ColumnsOf(MaxPackets - 1)) = ColumnsPerPacket

(* C6: interleaved path, dual return: every reading placed in the grid sits in
   column base + (block mod 2) with base = packet*blocks_per_packet*
   firings_per_block + (block/2)*2*firings_per_block + firing*2, so the even
   and the odd block of a pair fill the adjacent columns base and base+1, and
   no column holds readings of two (packet, block, firing) triples. *)
C6_DualReturnColumns ==
  (calibration_.num_lasers = 16 /\ phase \in { "decoding", "done" } /\ scanMsg.dual) =>
    /\ \A i \in Cells :
         pc.points[i].writes >= 1 =>
           LET src == pc.points[i].src
               base == SrcPacket(src) * ColumnsPerPacket
                       + (SrcBlock(src) \div 2) * 2 * VLP16_FIRINGS_PER_BLOCK
                       + SrcFiring(src) * 2
           IN  /\ pc.points[i].writes = 1
               /\ SrcBlock(src) % 2 = 0 => ColOf(i) = base
               /\ SrcBlock(src) % 2 = 1 => ColOf(i) = base + 1
    /\ \A col \in 0 .. pc.width - 1 : Cardinality(TriplesIn(col)) <= 1

\* the two returns of one firing sit side by side in one row
C6_Witness ==
  /\ calibration_.num_lasers = 16
  /\ scanMsg.dual
  /\ phase = "done"
  /\ \E i \in Cells :
       /\ ColOf(i) + 1 < pc.width
       /\ pc.points[i].writes = 1
       /\ pc.points[i + 1].writes = 1
       /\ SrcBlock(pc.points[i].src) % 2 = 0
       /\ SrcTriple(pc.points[i + 1].src) =
            << SrcPacket(pc.points[i].src), SrcBlock(pc.points[i].src) + 1,
               SrcFiring(pc.points[i].src) >>

\* the blocks of the scan, in the order they are processed
Blocks == (0 .. scanMsg.packets - 1) \X (0 .. BLOCKS_PER_PACKET - 1)
Before(x, y) == x[1] < y[1] \/ (x[1] = y[1] /\ x[2] < y[2])

\* the blocks whose header marker differs from the upper bank constant
MangledBlocks == { x \in Blocks : Header(scanMsg, x[1], x[2]) # UPPER_BANK }
FirstMangled == CHOOSE x \in MangledBlocks : \A y \in MangledBlocks : ~Before(y, x)

\* the azimuth difference of block b of packet p in a scan decoded block after
\* block: its own when it has a lookahead, else that of the last block of the
\* packet that has one
ScanAzimuthDiff(p, b) ==
  LET step == IF StatusByte(scanMsg, p) = DUAL_RETURN_STATUS THEN 2 ELSE 1
      from == IF b < BLOCKS_PER_PACKET - step THEN b ELSE BLOCKS_PER_PACKET - step - 1
  IN  CRem(36000 + Rotation(scanMsg, p, from + step) - Rotation(scanMsg, p, from), 36000)

\* what the decode of a well-formed scan leaves for beam dsr of firing f of block
\* b of packet p: position, intensity and ring
Vlp16Expected(p, b, f, dsr) ==
  LET j == f * VLP16_SCANS_PER_FIRING + dsr
      corr == calibration_.laser_corrections[dsr]
      az == AzimuthCorrected(Rotation(scanMsg, p, b), ScanAzimuthDiff(p, b), f, dsr)
      dist == 2 * DistanceCode(scanMsg, p, b, j) + corr.dist_correction
      transformed == tf_listener_ /\ config_.frame_id # ""
      raw == RawIntensity(scanMsg, p, b, j)
      clamped == IF raw < corr.min_intensity THEN corr.min_intensity
                 ELSE IF raw > corr.max_intensity THEN corr.max_intensity ELSE raw
  IN  IF ~InWindow(az, config_.min_angle, config_.max_angle)
        THEN [ pos |-> "NaN", intensity |-> 0, ring |-> -1 ]
      ELSE IF dist < config_.min_range \/ dist > config_.max_range
              \/ (transformed /\ ~TransformSucceeds(scanMsg, p, b, j))
        THEN [ pos |-> "NaN", intensity |-> 0, ring |-> corr.laser_ring ]
      ELSE [ pos |-> IF transformed THEN config_.frame_id ELSE "velodyne",
             intensity |-> clamped % 256, ring |-> corr.laser_ring ]

\* position, intensity and ring of a cell
Visible(c) == [ pos |-> c.pos, intensity |-> c.intensity, ring |-> c.ring ]

\* the cell of beam dsr of firing f of block b of packet p in the interleaved grid
Vlp16CellOf(p, b, f, dsr) ==
  CellAt(p * ColumnsPerPacket
         + (IF StatusByte(scanMsg, p) = DUAL_RETURN_STATUS
              THEN (b \div 2) * 2 * VLP16_FIRINGS_PER_BLOCK + f * 2 + (b % 2)
              ELSE b * VLP16_FIRINGS_PER_BLOCK + f),
         calibration_.num_lasers - 1 - calibration_.laser_corrections[dsr].laser_ring)

(* C7: interleaved path: when the first block whose header differs from the
   upper bank constant is block b of packet p, the decode ends at that block
   and returns the grid; the cells of the blocks before (p, b) hold what the
   decode of the well-formed scan writes there, the cells of block b of packet
   p, of the later blocks and of the later packets hold the default point. *)
C7_MangledHeader ==
  (calibration_.num_lasers = 16 /\ phase = "done" /\ MangledBlocks # {}) =>
    /\ << packet, block >> = FirstMangled
    /\ pc.width = scanMsg.packets * ColumnsPerPacket
    /\ pc.height = 16
    /\ \A x \in Blocks :
         \A f \in 0 .. VLP16_FIRINGS_PER_BLOCK - 1 : \A dsr \in 0 .. VLP16_SCANS_PER_FIRING - 1 :
           Visible(Vlp16CellOf(x[1], x[2], f, dsr)) =
             IF Before(x, FirstMangled)
               THEN Vlp16Expected(x[1], x[2], f, dsr)
               ELSE [ pos |-> "NaN", intensity |-> 0, ring |-> -1 ]

\* block 3 of the first of MaxPackets packets is mangled: blocks 0..2 hold points
C7_Witness ==
  /\ calibration_.num_lasers = 16
  /\ phase = "done"
  /\ scanMsg.packets = MaxPackets
  /\ MangledBlocks # {}
  /\ FirstMangled = << 0, 3 >>
  /\ \E dsr \in 0 .. 15 : Vlp16CellOf(0, 2, 1, dsr).pos # "NaN"
  /\ \A i \in Cells : ColOf(i) >= ColumnsPerPacket => pc.points[i] = NanPoint

\* the transform collaborator is used and throws for reading id
SrcTransformFails(id) ==
  /\ UsesTransform(tf_listener_, config_)
  /\ ~TransformSucceeds(scanMsg, SrcPacket(id), SrcBlock(id), SrcIndex(id))

(* C8: both paths: a cell whose one accepted reading lies in range and whose
   transform fails keeps the default position and the default intensity
   (NaN, 0), with the ring of the reading recorded; the readings after it in
   the scan whose transform succeeds are written. *)
C8_TransformFailure ==
  phase \in { "decoding", "done" } =>
    \A i \in Cells :
      LET c == pc.points[i]
      IN  (c.writes = 1 /\ SrcInRange(c.src)) =>
            IF SrcTransformFails(c.src)
              THEN c.pos = NaNPosition /\ c.intensity = 0 /\ c.ring = SrcRing(c.src)
              ELSE c.pos # NaNPosition /\ c.ring = SrcRing(c.src)

(* C9: setup fails for a calibration of zero beams or of a beam count other
   than 16, 32 and 64, and unpack never runs with such a beam count. *)
C9_SetupRejectsUnsupported ==
  /\ (phase # "constructed" /\ calibration_.num_lasers \notin SupportedLasers)
       => phase = "setup_failed"
  /\ phase \in { "decoding", "done", "undefined" } => calibration_.num_lasers \in SupportedLasers

(* C10: every gate evaluation of one unpack call uses the pair (min_angle,
   max_angle) the call started with; with setParameters interleaved no block is
   gated against a pair that no setParameters call has left behind. *)
C10_ConfigurationSnapshot ==
  \A g \in gateLog :
    /\ << g.min, g.max >> = snapshot
    /\ << g.min, g.max >> \in installed

\* a step of the legacy decoder over the block (packet, block) that ends without fault
LegacyBlockStep ==
  /\ phase = "decoding"
  /\ calibration_.num_lasers # 16
  /\ fault' = ""
  /\ << packet', block' >> # << packet, block >>

\* the block (packet, block) passes the angle gate
BlockInWindow == InWindow(Rotation(scanMsg, packet, block), config_.min_angle, config_.max_angle)

\* the index in pc.points of the cell the reading j of the block is counted into
CountedCell(j) ==
  (calibration_.num_lasers - 1 - SrcRing(ReadingId(packet, block, j))) * pc.width
    + (n_points + j) \div calibration_.num_lasers

(* C11: legacy path: the counter n_points is 0 when a scan is entered; a block
   whose rotation code passes the angle gate advances it by one per reading,
   reading j being placed at (col = n / beam_count, row = beam_count - 1 - ring)
   for the value n of the counter before it, with the ring written there
   whether or not the reading is in range; a block that does not pass leaves the
   counter and the grid alone; no other step advances the counter, and it never
   decreases while a scan is decoded. *)
C11_PointCounter ==
  [][ /\ (phase = "ready" /\ phase' # "ready") => n_points' = 0
      /\ phase = "decoding" => n_points' >= n_points
      /\ (phase = "decoding" /\ calibration_.num_lasers = 16) => n_points' = n_points
      /\ (LegacyBlockStep /\ ~BlockInWindow) => n_points' = n_points /\ pc' = pc
      /\ (LegacyBlockStep /\ BlockInWindow) =>
           /\ n_points' = n_points + SCANS_PER_BLOCK
           /\ \A j \in 0 .. SCANS_PER_BLOCK - 1 :
                LET id == ReadingId(packet, block, j)
                    old == pc.points[CountedCell(j)]
                    new == pc'.points[CountedCell(j)]
                IN  /\ new.ring = SrcRing(id)
                    /\ new.src = id
                    /\ new.writes = old.writes + 1
                    /\ ~SrcInRange(id) => new.pos = old.pos /\ new.intensity = old.intensity
           /\ LET counted == { CountedCell(j) : j \in 0 .. SCANS_PER_BLOCK - 1 }
              IN  \A i \in Cells \ counted : pc'.points[i] = pc.points[i]
    ]_vars

\* two blocks of a 64 beam scan were counted into column 0, readings out of range among them
C11_Witness ==
  /\ calibration_.num_lasers = 64
  /\ phase = "decoding"
  /\ n_points = 2 * SCANS_PER_BLOCK
  /\ \E i \in Cells :
       /\ pc.points[i].writes >= 1
       /\ ~SrcInRange(pc.points[i].src)
       /\ pc.points[i].ring = SrcRing(pc.points[i].src)
       /\ pc.points[i].pos = NaNPosition

\* the readings of a scan in the interleaved layout: (packet, block, firing, beam)
Vlp16Beams ==
  Blocks \X (0 .. VLP16_FIRINGS_PER_BLOCK - 1) \X (0 .. VLP16_SCANS_PER_FIRING - 1)

\* a scan of the interleaved layout decoded to its end, every header well-formed
Vlp16WholeScan ==
  /\ calibration_.num_lasers = 16
  /\ phase = "done"
  /\ MangledBlocks = {}

\* the corrected azimuth of a beam passes the angle gate
Vlp16InWindow(p, b, f, dsr) ==
  InWindow(AzimuthCorrected(Rotation(scanMsg, p, b), ScanAzimuthDiff(p, b), f, dsr),
           config_.min_angle, config_.max_angle)

\* the corrected distance of a beam lies in [min_range, max_range]
Vlp16InRange(p, b, f, dsr) ==
  SrcInRange(ReadingId(p, b, f * VLP16_SCANS_PER_FIRING + dsr))

\* interleaved path: the cell of every beam of a well-formed scan ends with the
\* ring of the beam
C12_RingEveryReading ==
  Vlp16WholeScan =>
    \A x \in Vlp16Beams :
      Vlp16CellOf(x[1][1], x[1][2], x[2], x[3]).ring
        = calibration_.laser_corrections[x[3]].laser_ring

(* C12: interleaved path: the cell of every beam of a well-formed scan whose
   corrected azimuth passes the angle gate ends with the ring of the beam, in
   range or not, and out of range with the default position and intensity; the
   cell of a beam whose corrected azimuth does not pass keeps the sentinel -1. *)
C12_RingRecording ==
  Vlp16WholeScan =>
    \A x \in Vlp16Beams :
      LET c == Vlp16CellOf(x[1][1], x[1][2], x[2], x[3])
      IN  IF Vlp16InWindow(x[1][1], x[1][2], x[2], x[3])
            THEN /\ c.ring = calibration_.laser_corrections[x[3]].laser_ring
                 /\ c.writes = 1
                 /\ ~Vlp16InRange(x[1][1], x[1][2], x[2], x[3])
                      => c.pos = NaNPosition /\ c.intensity = 0
            ELSE c.ring = -1 /\ c.writes = 0

\* a whole scan with beams out of range inside the window and beams outside the window
C12_Witness ==
  /\ Vlp16WholeScan
  /\ \E x \in Vlp16Beams :
       /\ Vlp16InWindow(x[1][1], x[1][2], x[2], x[3])
       /\ ~Vlp16InRange(x[1][1], x[1][2], x[2], x[3])
       /\ Vlp16CellOf(x[1][1], x[1][2], x[2], x[3]).ring = calibration_.laser_corrections[x[3]].laser_ring
  /\ \E x \in Vlp16Beams : ~Vlp16InWindow(x[1][1], x[1][2], x[2], x[3])

\* the block decoded by the last step of the interleaved decoder
Vlp16LastBlock == IF block = 0 THEN << packet - 1, BLOCKS_PER_PACKET - 1 >> ELSE << packet, block - 1 >>

\* a block of the interleaved layout was just decoded, its rotation codes in 0..35999
Vlp16BlockDecoded ==
  /\ calibration_.num_lasers = 16
  /\ phase \in { "decoding", "done" }
  /\ gateLog # {}
  /\ scanMsg.rotations.mod = 36000

\* return_step: 2 under dual return, 1 otherwise
ReturnStep(p) == IF StatusByte(scanMsg, p) = DUAL_RETURN_STATUS THEN 2 ELSE 1

\* (36000 + rotation[i + return_step] - rotation[i]) mod 36000
LookaheadDiff(p, i) ==
  (36000 + Rotation(scanMsg, p, i + ReturnStep(p)) - Rotation(scanMsg, p, i)) % 36000

\* the difference of block i of packet p: its own with a lookahead, else that of the
\* most recent earlier block of the packet that has one
InterpolationDiff(p, i) ==
  IF i < BLOCKS_PER_PACKET - ReturnStep(p) THEN LookaheadDiff(p, i)
  ELSE LookaheadDiff(p, BLOCKS_PER_PACKET - ReturnStep(p) - 1)

\* round(rotation[i] + diff * (dsr * per_beam_offset + f * per_firing_offset) / block_duration) mod 36000
InterpolatedAzimuth(p, i, f, dsr) ==
  LET t == dsr * VLP16_DSR_TOFFSET + f * VLP16_FIRING_TOFFSET
      num == Rotation(scanMsg, p, i) * VLP16_BLOCK_TDURATION + InterpolationDiff(p, i) * t
  IN  ((2 * num + VLP16_BLOCK_TDURATION) \div (2 * VLP16_BLOCK_TDURATION)) % 36000

(* C13: interleaved path, rotation codes in 0..35999: after block i of a packet
   is decoded the difference
   kept is (36000 + rotation[i + return_step] - rotation[i]) mod 36000 when the
   block has a lookahead, else the one of the most recent earlier block of the
   same packet that has one; the azimuths gated for the block are
   round(rotation[i] + diff * t / block_duration) mod 36000 over its 32 beams,
   rotation[i] mod 36000 for beam 0 of firing 0. *)
C13_AzimuthInterpolation ==
  Vlp16BlockDecoded =>
    LET p == Vlp16LastBlock[1]
        i == Vlp16LastBlock[2]
    IN  /\ last_azimuth_diff = InterpolationDiff(p, i)
        /\ { g.code : g \in gateLog }
             = { InterpolatedAzimuth(p, i, f, dsr) :
                   f \in 0 .. VLP16_FIRINGS_PER_BLOCK - 1, dsr \in 0 .. VLP16_SCANS_PER_FIRING - 1 }
        /\ InterpolatedAzimuth(p, i, 0, 0) = Rotation(scanMsg, p, i) % 36000

\* the last block of the second packet of a scan that speeds up was decoded with
\* the difference of the block before it
C13_Witness ==
  /\ Vlp16BlockDecoded
  /\ phase = "done"
  /\ scanMsg.packets = MaxPackets
  /\ scanMsg.rotations.accel # 0
  /\ last_azimuth_diff = LookaheadDiff(MaxPackets - 1, BLOCKS_PER_PACKET - 2)
  /\ last_azimuth_diff # LookaheadDiff(MaxPackets - 1, BLOCKS_PER_PACKET - 3)
  /\ last_azimuth_diff # LookaheadDiff(0, BLOCKS_PER_PACKET - 2)
  /\ last_azimuth_diff # 0

(* C14: every cell access pc.at(col, row) of unpack and unpack_vlp16 has
   0 <= col < width and 0 <= row < height, for every beam count unpack is
   entered with after a successful setup. *)
C14_GridWritesInBounds == fault # "pc.at outside the grid"

(* C15: every index used to read cos_rot_table_ and sin_rot_table_ lies in
   [0, 36000): a block rotation code (legacy path) or a corrected azimuth
   (interleaved path) that passes the angle gate is at least 0 and below
   36000, for every 16 bit rotation code and every stored configuration. *)
C15_TableLookupsInRange ==
  /\ fault # "rotation table index out of range"
  /\ \A g \in gateLog : g.accepted => g.code >= 0 /\ g.code < ROTATION_MAX_UNITS

(* C16: legacy path: the hardware beam id j + bank_origin that indexes the
   calibration table is below the beam count, for every block header and the
   beam counts 32 and 64. *)
C16_CalibrationLookupsInRange ==
  calibration_.num_lasers \in { 32, 64 } => fault # "laser_corrections index out of range"

====
